---- MODULE Spec2Model ----
(***************************************************************************)
(* vcap: capture one still frame from a V4L2 device through a single       *)
(* mmap()ed buffer and save it as a JPEG file (src/vcap.c).                *)
(*                                                                         *)
(* The model follows main() from option parsing to its return.  Every      *)
(* system call site of the program is one position of pc; the outcome of   *)
(* a system call (success, EINTR, a genuine errno) and the values the      *)
(* driver reports are chosen nondeterministically.  log is the trace of    *)
(* the system calls and of the calls/returns of captureImage, saveImage    *)
(* and YUYV2JPEG, in program order.                                        *)
(*                                                                         *)
(* SpecConv follows YUYV2JPEG row by row over small frames: conv holds     *)
(* the mapped bytes, the loop's z, yuyv and next_scanline, and the rows    *)
(* written.  LiveSpec is both kinds of run under weak fairness.            *)
(***************************************************************************)
EXTENDS Integers, Sequences, FiniteSets, TLC

(* ---------------- bounds of the model ---------------- *)

\* one ioctl call of a run is interrupted, at most this many times in a row
MaxEintr == 1
\* the driver confirms widths 2, 4, .., 2*MaxHalfWidth, or the default width
MaxHalfWidth == 1
\* the driver confirms heights 1 .. MaxHeight, or the default height
MaxHeight == 1
\* the frames that are converted pixel by pixel are 2, 4, .., 2*MaxConvHalfWidth
\* pixels wide and 1 .. MaxConvHeight pixels high
MaxConvHalfWidth == 2
MaxConvHeight == 2
\* the bytes of those frames are 16, 128 and NSamples + 1 values spread
\* evenly over 0 .. 255
NSamples == 2

(* ---------------- program constants ---------------- *)

DEFAULT_WIDTH == 640
DEFAULT_HEIGHT == 480
DEFAULT_JPEG_QUALITY == 95
\* bits of v4l2_capability.capabilities tested by checkCapabilities
V4L2_CAP_VIDEO_CAPTURE == 1
V4L2_CAP_STREAMING == 67108864
\* the descriptor open() returns on success, and VI.fd while there is none
OpenedFd == 3
NoFd == -1
\* index of the one buffer the program uses (buf.index, mbuf.index)
BufIndex == 0

\* caps & flag, for a one-bit flag
HasCap(caps, flag) == (caps \div flag) % 2 = 1

(* ---------------- the environment's value sets ---------------- *)

\* -w and -h: not given, or given with the value atoi(optarg) yields; 0 is
\* what atoi yields for a non-numeric argument.  Widths and heights stay
\* below 2^31, where int and __u32 hold the same value and the comparison
\* fmt.pix.width != vi->width agrees with the comparison of the numbers.
NotGiven == [given |-> FALSE, val |-> 0]
Given(n) == [given |-> TRUE, val |-> n]
WidthArgs == {NotGiven, Given(0), Given(2)}
HeightArgs == {NotGiven, Given(0), Given(1)}

\* what getopt writes to stderr (opterr is left at 1) when it returns '?':
\* for an option it does not know, and for -d, -o, -w or -h without argument
GetoptErrors == {"getopt: invalid option", "getopt: option requires an argument"}
NoGetoptError == "none"

\* the command lines: every combination of -w and -h, and -v alone; each of
\* them alone or followed by an option getopt rejects
\* getopt hands the options to main's switch in the order of the command
\* line: -w before -h, or -h before -w
OptionOrders == {"wh", "hw"}

CommandLines ==
  [w : WidthArgs, h : HeightArgs, v : {FALSE}, order : OptionOrders,
   unknown : {NoGetoptError} \cup GetoptErrors]
    \cup [w : {NotGiven}, h : {NotGiven}, v : {TRUE}, order : {"wh"},
          unknown : {NoGetoptError} \cup GetoptErrors]

\* what the driver answers to VIDIOC_G_FMT
DriverWidths == {2 * k : k \in 1..MaxHalfWidth} \cup {DEFAULT_WIDTH}
DriverHeights == (1..MaxHeight) \cup {DEFAULT_HEIGHT}

\* what the driver answers to VIDIOC_QUERYCAP
DriverCaps ==
  { a + b : a \in {0, V4L2_CAP_VIDEO_CAPTURE}, b \in {0, V4L2_CAP_STREAMING} }

\* the length VIDIOC_QUERYBUF reports for a w x h image: the YUYV image size
\* (2 bytes per pixel), or a smaller size when the driver kept another,
\* denser pixel format than the one asked for
DriverLengths(w, h) == {2 * w * h, w * h}

\* results of ioctl(): r = 0, or r = -1 with errno
IoctlOK == [r |-> 0, errno |-> "0"]
IoctlErr(e) == [r |-> -1, errno |-> e]
IoctlOutcomes == {IoctlOK, IoctlErr("EINTR"), IoctlErr("EINVAL"), IoctlErr("EIO")}

\* results of select(): a frame is ready, the timeout expired, or rv < 0
SelectOutcomes == {"READY", "TIMEOUT", "ERROR"}

VARIABLES
  pc,          \* position of the program: the next system call site
  VI,          \* videoInfo_t VI of main
  mbuf,        \* struct v4l2_buffer mbuf of allocBuffer
  cycle,       \* number of captureImage calls made so far (1 discard, 2 live)
  retval,      \* the value the last captureImage call returned
  dev,         \* the kernel side: descriptor open, buffer mapped/queued, streaming
  log,         \* trace of system calls and of function calls/returns
  errout,      \* lines written to stderr
  out,         \* lines written to stdout
  file,        \* the output path: "untouched", "truncated" or "complete"
  jpg,         \* what YUYV2JPEG handed to the encoder
  exitStatus,  \* the value main returned, once pc = "done"
  conv         \* the scanline loop of YUYV2JPEG: the mapped bytes, z, yuyv,
               \* next_scanline and the rows written so far

vars == <<pc, VI, mbuf, cycle, retval, dev, log, errout, out, file, jpg, exitStatus, conv>>

\* no conversion is under way
ConvIdle == [frame |-> << >>, z |-> 0, yuyv |-> 0, next_scanline |-> 0, rows |-> << >>]

E(op, res, arg) == [op |-> op, res |-> res, arg |-> arg]

\* number of EINTR results delivered so far
Eintrs(l) == Cardinality({i \in 1..Len(l) : l[i].res = "EINTR"})

\* the outcomes ioctl() may have now: a signal may interrupt a call that was
\* interrupted just before, or the first call that is interrupted at all
Outcomes ==
  IF Eintrs(log) < MaxEintr /\ (Eintrs(log) = 0 \/ log[Len(log)].res = "EINTR")
    THEN IoctlOutcomes
    ELSE IoctlOutcomes \ {IoctlErr("EINTR")}

\* how an ioctl outcome appears in the trace
ResName(o) == IF o.r = 0 THEN "OK" ELSE o.errno

Init ==
  /\ pc = "getopt"
  /\ VI = [width |-> DEFAULT_WIDTH, height |-> DEFAULT_HEIGHT, fd |-> NoFd,
           caps |-> 0, fmt |-> [width |-> 0, height |-> 0],
           buffer |-> "NULL", buffer_len |-> 0, verbose |-> FALSE]
  /\ mbuf = [index |-> 0, length |-> 0]
  /\ cycle = 0
  /\ retval = FALSE
  /\ dev = [open |-> FALSE, mapped |-> FALSE, maplen |-> 0,
            queued |-> FALSE, streaming |-> FALSE]
  /\ log = << >>
  /\ errout = << >>
  /\ out = << >>
  /\ file = "untouched"
  /\ jpg = [image_width |-> 0, image_height |-> 0, scanlines |-> 0,
            row_pixels |-> 0, quality |-> 0]
  /\ exitStatus = -1
  /\ conv = ConvIdle

\* main returns s
Return(s) ==
  /\ pc' = "done"
  /\ exitStatus' = s

\* close(fd): the kernel drops the queue and the stream with the descriptor
Closed(d) == [d EXCEPT !.open = FALSE, !.queued = FALSE, !.streaming = FALSE]
CloseEv == E("close", "OK", OpenedFd)

(* ---------------- xioctl ---------------- *)

\* xioctl without the retry: an interrupted call is returned to the caller
xioctlRetries_Never(o) == FALSE

\* the loop condition of xioctl: the call is issued again
xioctlRetries(o) == o.r = -1 /\ o.errno = "EINTR"

\* what the callers test: xioctl(...) < 0
xioctlFailed(o) == o.r < 0

\* an interrupted call: the trace grows, the same call is next
Interrupted(op, o, arg) ==
  /\ log' = Append(log, E(op, ResName(o), arg))
  /\ UNCHANGED <<pc, mbuf, cycle, retval, dev, errout, out, file, jpg, exitStatus>>

\* an interrupted call that found its argument as it leaves it
Reissue(op, o, arg) ==
  /\ Interrupted(op, o, arg)
  /\ UNCHANGED VI

(* ---------------- main: option parsing ---------------- *)

\* -w / -h: atoi(optarg), 0 falls back to the default with a warning
OptValue(arg, default) == IF arg.given /\ arg.val # 0 THEN arg.val ELSE default
OptWarning(arg, text) == IF arg.given /\ arg.val = 0 THEN <<text>> ELSE << >>

\* the warnings of the switch, each written when its option is met
OptWarnings(cl) ==
  LET ww == OptWarning(cl.w, "Invalid width, using default")
      hw == OptWarning(cl.h, "Invalid height, using default")
  IN  IF cl.order = "hw" THEN hw \o ww ELSE ww \o hw

ParseOptions ==
  /\ pc = "getopt"
  /\ UNCHANGED conv
  /\ \E cl \in CommandLines :
       /\ VI' = [VI EXCEPT !.width = OptValue(cl.w, DEFAULT_WIDTH),
                           !.height = OptValue(cl.h, DEFAULT_HEIGHT),
                           !.verbose = cl.v]
       /\ errout' = errout \o OptWarnings(cl)
                           \o (IF cl.unknown \in GetoptErrors THEN <<cl.unknown>> ELSE << >>)
       /\ IF cl.unknown \in GetoptErrors
            THEN /\ out' = Append(out, "Usage")
                 /\ Return(1)
            ELSE /\ out' = out
                 /\ pc' = "open"
                 /\ exitStatus' = exitStatus
  /\ UNCHANGED <<mbuf, cycle, retval, dev, log, file, jpg>>

(* ---------------- initVideoDevice, checkCapabilities ---------------- *)

InitVideoDevice_open ==
  /\ pc = "open"
  /\ UNCHANGED conv
  /\ \E ok \in BOOLEAN :
       IF ok
         THEN /\ VI' = [VI EXCEPT !.fd = OpenedFd]
              /\ dev' = [dev EXCEPT !.open = TRUE]
              /\ log' = Append(log, E("open", "OK", OpenedFd))
              /\ errout' = errout
              /\ pc' = "VIDIOC_QUERYCAP"
              /\ exitStatus' = exitStatus
         ELSE /\ VI' = [VI EXCEPT !.fd = -1]
              /\ dev' = dev
              /\ log' = Append(log, E("open", "ENOENT", -1))
              /\ errout' = Append(errout, "open()")
              /\ Return(1)
  /\ UNCHANGED <<mbuf, cycle, retval, out, file, jpg>>

\* checkCapabilities without the test of V4L2_CAP_STREAMING
CapsMessage_NoStreamingCheck(caps) ==
  IF ~HasCap(caps, V4L2_CAP_VIDEO_CAPTURE)
    THEN "Device does not support video capture"
    ELSE "ok"

\* the two flags checkCapabilities requires
CapsMessage(caps) ==
  IF ~HasCap(caps, V4L2_CAP_VIDEO_CAPTURE)
    THEN "Device does not support video capture"
  ELSE IF ~HasCap(caps, V4L2_CAP_STREAMING)
    THEN "Device does not support streaming i/o"
  ELSE "ok"

VerboseLines(v) == IF v THEN <<"Driver:", "Device:", "Caps  :">> ELSE << >>

CheckCapabilities ==
  /\ pc = "VIDIOC_QUERYCAP"
  /\ UNCHANGED conv
  /\ \E o \in Outcomes, caps \in DriverCaps :
       IF xioctlRetries(o) THEN Reissue("VIDIOC_QUERYCAP", o, 0)
       ELSE
         /\ UNCHANGED <<mbuf, cycle, retval, file, jpg>>
         /\ IF xioctlFailed(o)
              THEN \* checkCapabilities fails; initVideoDevice closes; main returns 1
                   /\ log' = log \o <<E("VIDIOC_QUERYCAP", ResName(o), 0), CloseEv>>
                   /\ errout' = Append(errout, "ioctl(VIDIOC_QUERYCAP)")
                   /\ out' = out
                   /\ VI' = [VI EXCEPT !.fd = -1]
                   /\ dev' = Closed(dev)
                   /\ Return(1)
              ELSE
                   /\ out' = out \o VerboseLines(VI.verbose)
                   /\ IF CapsMessage(caps) # "ok"
                        THEN /\ log' = log \o <<E("VIDIOC_QUERYCAP", "OK", caps), CloseEv>>
                             /\ errout' = Append(errout, CapsMessage(caps))
                             /\ VI' = [VI EXCEPT !.caps = caps, !.fd = -1]
                             /\ dev' = Closed(dev)
                             /\ Return(1)
                        ELSE /\ log' = Append(log, E("VIDIOC_QUERYCAP", "OK", caps))
                             /\ errout' = errout
                             /\ VI' = [VI EXCEPT !.caps = caps]
                             /\ dev' = dev
                             /\ pc' = "VIDIOC_S_FMT"
                             /\ exitStatus' = exitStatus

(* ---------------- setFormat ---------------- *)

\* main's handling of a failed setFormat or allocBuffer: close, return 1
FailAndClose(op, o, arg, msgs) ==
  /\ log' = log \o <<E(op, ResName(o), arg), CloseEv>>
  /\ errout' = errout \o msgs
  /\ dev' = Closed(dev)
  /\ Return(1)

\* the format setFormat stores in vi->fmt before it calls VIDIOC_S_FMT
RequestedFormat == [width |-> VI.width, height |-> VI.height]

\* what a successful VIDIOC_S_FMT leaves in vi->fmt: the ioctl is read-write,
\* the driver writes the format it selected over the request, and a driver
\* that takes the request as it is leaves the request there
SelectedFormats ==
  [width : DriverWidths \cup {VI.width}, height : DriverHeights \cup {VI.height}]

SetFormat_S_FMT ==
  /\ pc = "VIDIOC_S_FMT"
  /\ UNCHANGED conv
  /\ \E o \in Outcomes :
       IF xioctlRetries(o)
         THEN /\ Interrupted("VIDIOC_S_FMT", o, VI.width)
              /\ VI' = [VI EXCEPT !.fmt = RequestedFormat]
       ELSE
         /\ UNCHANGED <<mbuf, cycle, retval, out, file, jpg>>
         /\ IF xioctlFailed(o)
              THEN /\ FailAndClose("VIDIOC_S_FMT", o, VI.width, <<"ioctl(VIDIOC_S_FMT)">>)
                   /\ VI' = [VI EXCEPT !.fmt = RequestedFormat]
              ELSE /\ \E selected \in SelectedFormats :
                        VI' = [VI EXCEPT !.fmt = selected]
                   /\ log' = Append(log, E("VIDIOC_S_FMT", "OK", VI.width))
                   /\ pc' = "VIDIOC_G_FMT"
                   /\ UNCHANGED <<errout, dev, exitStatus>>

\* setFormat that warns but keeps the requested dimension
Adopt_KeepRequested(requested, confirmed) == requested

\* the dimension setFormat keeps: the driver's when it differs from the request
Adopt(requested, confirmed) == IF confirmed # requested THEN confirmed ELSE requested
AdjustWarning(requested, confirmed, text) ==
  IF confirmed # requested THEN <<text>> ELSE << >>

SetFormat_G_FMT ==
  /\ pc = "VIDIOC_G_FMT"
  /\ UNCHANGED conv
  /\ \E o \in Outcomes, dw \in DriverWidths, dh \in DriverHeights :
       IF xioctlRetries(o) THEN Reissue("VIDIOC_G_FMT", o, 0)
       ELSE
         /\ UNCHANGED <<mbuf, cycle, retval, out, file, jpg>>
         /\ IF xioctlFailed(o)
              THEN /\ FailAndClose("VIDIOC_G_FMT", o, 0, <<"ioctl(VIDIOC_C_FMT)">>)
                   /\ VI' = VI
              ELSE /\ log' = Append(log, E("VIDIOC_G_FMT", "OK", dw))
                   /\ VI' = [VI EXCEPT !.fmt = [width |-> dw, height |-> dh],
                                       !.width = Adopt(VI.width, dw),
                                       !.height = Adopt(VI.height, dh)]
                   /\ errout' = errout
                        \o AdjustWarning(VI.width, dw, "Warning: Selected width adjusted by driver")
                        \o AdjustWarning(VI.height, dh, "Warning: Selected height adjusted by driver")
                   /\ pc' = "VIDIOC_REQBUFS"
                   /\ UNCHANGED <<dev, exitStatus>>

(* ---------------- allocBuffer, releaseBuffer ---------------- *)

ReqbufsMessages(o) ==
  IF o.errno = "EINVAL"
    THEN <<"Capture device does not support mmapped buffers", "ioctl(VIDIOC_REQBUFS)">>
    ELSE <<"ioctl(VIDIOC_REQBUFS)">>

AllocBuffer_REQBUFS ==
  /\ pc = "VIDIOC_REQBUFS"
  /\ UNCHANGED conv
  /\ \E o \in Outcomes :
       IF xioctlRetries(o) THEN Reissue("VIDIOC_REQBUFS", o, 1)
       ELSE
         /\ UNCHANGED <<VI, mbuf, cycle, retval, out, file, jpg>>
         /\ IF xioctlFailed(o)
              THEN FailAndClose("VIDIOC_REQBUFS", o, 1, ReqbufsMessages(o))
              ELSE /\ log' = Append(log, E("VIDIOC_REQBUFS", "OK", 1))
                   /\ pc' = "VIDIOC_QUERYBUF"
                   /\ UNCHANGED <<errout, dev, exitStatus>>

AllocBuffer_QUERYBUF ==
  /\ pc = "VIDIOC_QUERYBUF"
  /\ UNCHANGED conv
  /\ \E o \in Outcomes, len \in DriverLengths(VI.fmt.width, VI.fmt.height) :
       IF xioctlRetries(o) THEN Reissue("VIDIOC_QUERYBUF", o, BufIndex)
       ELSE
         /\ UNCHANGED <<VI, cycle, retval, out, file, jpg>>
         /\ IF xioctlFailed(o)
              THEN /\ FailAndClose("VIDIOC_QUERYBUF", o, BufIndex, <<"ioctl(VIDIOC_QUERYBUF)">>)
                   /\ mbuf' = [index |-> BufIndex, length |-> 0]
              ELSE /\ log' = Append(log, E("VIDIOC_QUERYBUF", "OK", BufIndex))
                   /\ mbuf' = [index |-> BufIndex, length |-> len]
                   /\ pc' = "mmap"
                   /\ UNCHANGED <<errout, dev, exitStatus>>

AllocBuffer_mmap ==
  /\ pc = "mmap"
  /\ UNCHANGED conv
  /\ \E ok \in BOOLEAN :
       IF ok
         THEN /\ VI' = [VI EXCEPT !.buffer = "MAPPED", !.buffer_len = mbuf.length]
              /\ dev' = [dev EXCEPT !.mapped = TRUE, !.maplen = mbuf.length]
              /\ log' = Append(log, E("mmap", "OK", mbuf.length))
              /\ pc' = "captureImage"
              /\ UNCHANGED <<errout, exitStatus>>
         ELSE /\ VI' = [VI EXCEPT !.buffer = "MAP_FAILED"]
              /\ log' = log \o <<E("mmap", "ENOMEM", mbuf.length), CloseEv>>
              /\ errout' = Append(errout, "mmap()")
              /\ dev' = Closed(dev)
              /\ Return(1)
  /\ UNCHANGED <<mbuf, cycle, retval, out, file, jpg>>

\* a releaseBuffer that unmaps the size of the negotiated format
ReleaseEv_FormatSize == E("munmap", "OK", 2 * VI.width * VI.height)

\* releaseBuffer: munmap(vi->buffer, vi->buffer_len)
ReleaseEv == E("munmap", "OK", VI.buffer_len)
Released(d) == [d EXCEPT !.mapped = FALSE]

\* a teardown that closes the device before it releases the buffer
ReleaseAndClose_CloseFirst(evs, s) ==
  /\ log' = log \o evs \o <<CloseEv, ReleaseEv>>
  /\ dev' = Closed(Released(dev))
  /\ Return(s)

\* main's last lines and its discard-failure branch: releaseBuffer, close
ReleaseAndClose(evs, s) ==
  /\ log' = log \o evs \o <<ReleaseEv, CloseEv>>
  /\ dev' = Closed(Released(dev))
  /\ Return(s)

(* ---------------- captureImage ---------------- *)

\* main calls captureImage: the discard cycle first, the live cycle second
Main_CallCapture ==
  /\ pc = "captureImage"
  /\ UNCHANGED conv
  /\ cycle' = cycle + 1
  /\ log' = Append(log, E("captureImage", "call", cycle + 1))
  /\ pc' = "VIDIOC_QBUF"
  /\ UNCHANGED <<VI, mbuf, retval, dev, errout, out, file, jpg, exitStatus>>

\* captureImage returns b after the system calls evs
CaptureReturns(evs, b, msgs) ==
  /\ log' = log \o evs \o <<E("captureImage", IF b THEN "true" ELSE "false", cycle)>>
  /\ errout' = errout \o msgs
  /\ retval' = b
  /\ pc' = "captured"

\* one ioctl of captureImage: a failure returns false, a success moves on
CaptureIoctl(op, arg, msg, nextpc, devOK) ==
  /\ pc = op
  /\ UNCHANGED conv
  /\ \E o \in Outcomes :
       IF xioctlRetries(o) THEN Reissue(op, o, arg)
       ELSE
         /\ UNCHANGED <<VI, mbuf, cycle, out, file, jpg, exitStatus>>
         /\ IF xioctlFailed(o)
              THEN /\ CaptureReturns(<<E(op, ResName(o), arg)>>, FALSE, <<msg>>)
                   /\ dev' = dev
              ELSE /\ dev' = devOK
                   /\ IF nextpc = "captured"
                        THEN CaptureReturns(<<E(op, "OK", arg)>>, TRUE, << >>)
                        ELSE /\ log' = Append(log, E(op, "OK", arg))
                             /\ pc' = nextpc
                             /\ UNCHANGED <<errout, retval>>

CaptureImage_QBUF ==
  CaptureIoctl("VIDIOC_QBUF", BufIndex, "ioctl(VIDIOC_QBUF)", "VIDIOC_STREAMON",
               [dev EXCEPT !.queued = TRUE])

CaptureImage_STREAMON ==
  CaptureIoctl("VIDIOC_STREAMON", 0, "ioctl(VIDIOC_STREAMON)", "select",
               [dev EXCEPT !.streaming = TRUE])

\* a captureImage that reports the expiry like a failed select
SelectMessage_AlwaysPerror(rv) == "select"

\* the message captureImage writes for each result of select that ends the cycle
SelectMessage(rv) == IF rv = "ERROR" THEN "select" ELSE "Timed out waiting for frame"

\* a captureImage that tests rv < 0 only and takes an expiry for a frame
SelectEndsCycle_ErrorOnly(rv) == rv = "ERROR"

\* the two tests after select: rv < 0, and !rv
SelectEndsCycle(rv) == rv = "ERROR" \/ rv = "TIMEOUT"

CaptureImage_select ==
  /\ pc = "select"
  /\ UNCHANGED conv
  /\ \E rv \in SelectOutcomes :
       IF ~SelectEndsCycle(rv)
         THEN /\ log' = Append(log, E("select", rv, 0))
              /\ pc' = "VIDIOC_DQBUF"
              /\ UNCHANGED <<errout, retval>>
         ELSE CaptureReturns(<<E("select", rv, 0)>>, FALSE, <<SelectMessage(rv)>>)
  /\ UNCHANGED <<VI, mbuf, cycle, dev, out, file, jpg, exitStatus>>

CaptureImage_DQBUF ==
  CaptureIoctl("VIDIOC_DQBUF", BufIndex, "ioctl(VIDIOC_DQBUF)", "VIDIOC_STREAMOFF",
               [dev EXCEPT !.queued = FALSE])

CaptureImage_STREAMOFF ==
  CaptureIoctl("VIDIOC_STREAMOFF", 0, "ioctl(VIDIOC_STREAMOFF)", "captured",
               [dev EXCEPT !.streaming = FALSE, !.queued = FALSE])

(* ---------------- main after each cycle ---------------- *)

\* if (!captureImage(&VI)) { ...; releaseBuffer; close; return 1; }
Main_AfterDiscard ==
  /\ pc = "captured"
  /\ UNCHANGED conv
  /\ cycle = 1
  /\ IF retval
       THEN /\ pc' = "captureImage"
            /\ UNCHANGED <<log, dev, errout, exitStatus>>
       ELSE /\ errout' = Append(errout, "Error capturing initial frame, exiting")
            /\ ReleaseAndClose(<< >>, 1)
  /\ UNCHANGED <<VI, mbuf, cycle, retval, out, file, jpg>>

\* a main that saves whatever the live cycle returned
LiveCycleSaves_Always(b) == TRUE

\* if (captureImage(&VI)) saveImage(outputFile, &VI);
LiveCycleSaves(b) == b

Main_AfterLive ==
  /\ pc = "captured"
  /\ UNCHANGED conv
  /\ cycle = 2
  /\ IF LiveCycleSaves(retval)
       THEN /\ pc' = "fopen"
            /\ log' = Append(log, E("saveImage", "call", 0))
            /\ UNCHANGED <<dev, exitStatus>>
       ELSE ReleaseAndClose(<< >>, 0)
  /\ UNCHANGED <<VI, mbuf, cycle, retval, errout, out, file, jpg>>

(* ---------------- saveImage, YUYV2JPEG ---------------- *)

SaveImage_fopen ==
  /\ pc = "fopen"
  /\ UNCHANGED conv
  /\ \E ok \in BOOLEAN :
       IF ok
         THEN /\ file' = "truncated"
              /\ log' = Append(log, E("fopen", "OK", 0))
              /\ pc' = "YUYV2JPEG"
              /\ UNCHANGED <<errout, dev, exitStatus>>
         ELSE /\ file' = file
              /\ errout' = Append(errout, "fopen()")
              /\ ReleaseAndClose(<<E("fopen", "EACCES", 0), E("saveImage", "false", 0)>>, 0)
  /\ UNCHANGED <<VI, mbuf, cycle, retval, out, jpg>>

\* saveImage after YUYV2JPEG returned b: fclose, "Saved image to", return true;
\* then main releases the buffer, closes the device and returns 0
SaveImage_finish(b) ==
  /\ out' = Append(out, "Saved image to")
  /\ ReleaseAndClose(<<E("YUYV2JPEG", IF b THEN "true" ELSE "false", 0),
                       E("fclose", "OK", 0), E("saveImage", "true", 0)>>, 0)

\* reading vi->buffer up to offset last. The loop compares no offset with
\* buffer_len: a read at or past it is outside the buffer, where the byte is
\* whatever the page holds, or no page is mapped and the process is killed
ReadOutcomes(last) == IF last < VI.buffer_len THEN {"read"} ELSE {"read", "SIGSEGV"}

\* the scanlines written when the process is killed: the kill comes in the
\* first row that reaches past buffer_len or, as far as pages that can be read
\* follow the buffer, in any row after it
KilledRows == (VI.buffer_len \div (2 * VI.width))..(VI.height - 1)

\* the encoder writes its output through jpeg_stdio_dest with the error
\* manager of jpeg_std_error: a write to the file that fails makes it print
\* its message and call exit(1)
WriteOutcomes == {"written", "ENOSPC"}

\* the scanlines written when the encoder gives up. With the defaults of
\* jpeg_set_defaults for JCS_RGB input (2x2 chroma subsampling) the encoder
\* collects 16 scanlines, compresses them and only then writes to the file:
\* a write fails while the 16th row of such a group is taken, or the last
\* row of the image (the encoder pads the group and compresses it), in both
\* cases before next_scanline counts the row, or in jpeg_finish_compress
\* after all rows. The encoder writes to the file only when its output
\* buffer is full, and the headers with one 16x16 block of pixels never
\* fill it: an image or a first group of rows that is one block wide
\* reaches the file in jpeg_finish_compress only
BlocksTaken(rows) == ((VI.width + 15) \div 16) * ((rows + 15) \div 16)
ExitRows ==
  {n \in 0..VI.height :
     \/ n = VI.height
     \/ (n % 16 = 15 \/ n = VI.height - 1) /\ BlocksTaken(n + 1) > 1}

\* exit(1) inside the encoder: no fclose, no releaseBuffer, no close and no
\* return of main; the kernel drops the mapping and the descriptor
EncoderExits ==
  /\ errout' = Append(errout, "Output file write error --- out of disk space?")
  /\ dev' = Closed(Released(dev))
  /\ pc' = "exit()"
  /\ exitStatus' = 1
  /\ UNCHANGED <<log, out, file>>

\* what has left the process of stdout when it is killed: every line when
\* stdout is a terminal (line buffered), none when it is a pipe or a file,
\* whose lines wait in the stdio buffer for an exit that never comes
StdoutAtKill == {out, << >>}

\* the process is killed inside YUYV2JPEG: nothing is released by the program,
\* the kernel drops the mapping and the descriptor, and the file stays as the
\* encoder left it
Killed ==
  /\ log' = Append(log, E("YUYV2JPEG", "SIGSEGV", 0))
  /\ dev' = Closed(Released(dev))
  /\ pc' = "killed"
  /\ out' \in StdoutAtKill
  /\ UNCHANGED <<errout, file, exitStatus>>

\* YUYV2JPEG as main's run sees it: the row buffer allocation, the dimensions
\* and quality given to the encoder, one row of vi->width pixels written per
\* scanline until next_scanline reaches image_height, the bytes 0 ..
\* 2*width*height - 1 of the buffer read on the way, and the return value
YUYV2JPEG ==
  /\ pc = "YUYV2JPEG"
  /\ UNCHANGED conv
  /\ \E row_buffer \in {"NULL", "allocated"} :
       IF row_buffer = "NULL"
         THEN /\ errout' = Append(errout, "Line buffer allocation failed")
              /\ UNCHANGED <<file, jpg>>
              /\ SaveImage_finish(FALSE)
         ELSE \E o \in ReadOutcomes(2 * VI.width * VI.height - 1) \cup WriteOutcomes :
                CASE o \in {"read", "written"} ->
                       /\ jpg' = [image_width |-> VI.width, image_height |-> VI.height,
                                  scanlines |-> VI.height, row_pixels |-> VI.width,
                                  quality |-> DEFAULT_JPEG_QUALITY]
                       /\ file' = "complete"
                       /\ errout' = errout
                       /\ SaveImage_finish(TRUE)
                  [] o = "SIGSEGV" ->
                       /\ \E n \in KilledRows :
                            jpg' = [image_width |-> VI.width, image_height |-> VI.height,
                                    scanlines |-> n, row_pixels |-> VI.width,
                                    quality |-> DEFAULT_JPEG_QUALITY]
                       /\ Killed
                  [] o = "ENOSPC" ->
                       /\ \E n \in ExitRows :
                            jpg' = [image_width |-> VI.width, image_height |-> VI.height,
                                    scanlines |-> n, row_pixels |-> VI.width,
                                    quality |-> DEFAULT_JPEG_QUALITY]
                       /\ EncoderExits
  /\ UNCHANGED <<VI, mbuf, cycle, retval>>

Next ==
  \/ ParseOptions
  \/ InitVideoDevice_open
  \/ CheckCapabilities
  \/ SetFormat_S_FMT
  \/ SetFormat_G_FMT
  \/ AllocBuffer_REQBUFS
  \/ AllocBuffer_QUERYBUF
  \/ AllocBuffer_mmap
  \/ Main_CallCapture
  \/ CaptureImage_QBUF
  \/ CaptureImage_STREAMON
  \/ CaptureImage_select
  \/ CaptureImage_DQBUF
  \/ CaptureImage_STREAMOFF
  \/ Main_AfterDiscard
  \/ Main_AfterLive
  \/ SaveImage_fopen
  \/ YUYV2JPEG

Spec == Init /\ [][Next]_vars

(* ---------------- YUYV2JPEG: the scanline loop ---------------- *)

\* CLAMP without its lower test
CLAMP_NoLowerBound(val, min, max) == IF val > max THEN max ELSE val

\* #define CLAMP(_val, _min, _max)
CLAMP(val, min, max) == IF val < min THEN min ELSE IF val > max THEN max ELSE val

\* a luma that is not scaled before the chroma terms are added
Shl8_NoShift(n) == n

\* n << 8, for the byte n
Shl8(n) == n * 256

\* n >> 8 on a signed int: the arithmetic shift, which rounds towards minus
\* infinity
Shr8(n) == n \div 256

\* a conversion that takes the first luma of the group for both pixels
LumaIndex_First(z) == 0

\* if (!z) y = yuyv[0] << 8; else y = yuyv[2] << 8;
LumaIndex(z) == IF z = 0 THEN 0 ELSE 2

\* the byte at offset off of the mapped page; the loop reads no offset past
\* the frame, and memory past it reads as 0
Peek(frame, off) == IF off \in DOMAIN frame THEN frame[off] ELSE 0

\* the body of the for loop up to the three stores: one output pixel, and the
\* offsets of the bytes it was computed from
Pixel(frame, yuyv, z) ==
  LET y == Shl8(Peek(frame, yuyv + LumaIndex(z)))
      u == Peek(frame, yuyv + 1) - 128
      v == Peek(frame, yuyv + 3) - 128
      r == Shr8(y + (359 * v))
      g == Shr8(y - (88 * u) - (183 * v))
      b == Shr8(y + (454 * u))
  IN  [r |-> CLAMP(r, 0, 255), g |-> CLAMP(g, 0, 255), b |-> CLAMP(b, 0, 255),
       yoff |-> yuyv + LumaIndex(z), uoff |-> yuyv + 1, voff |-> yuyv + 3]

\* if (z++) { z = 0; yuyv += 4; }
NextZ(z) == IF z # 0 THEN 0 ELSE z + 1
NextYuyv(z, yuyv) == IF z # 0 THEN yuyv + 4 ELSE yuyv

\* a for loop that stops one pixel short of the row
RowContinues_OneShort(x, width) == x < width - 1

\* for (x = 0; x < vi->width; x++)
RowContinues(x, width) == x < width

\* the for loop from column x on: the row buffer, and z and yuyv after it
RECURSIVE ScanRow(_, _, _, _, _, _)
ScanRow(frame, width, x, z, yuyv, row) ==
  IF RowContinues(x, width)
    THEN ScanRow(frame, width, x + 1, NextZ(z), NextYuyv(z, yuyv),
                 Append(row, Pixel(frame, yuyv, z)))
    ELSE [row |-> row, z |-> z, yuyv |-> yuyv]

\* while (jpgInfo.next_scanline < jpgInfo.image_height)
LoopContinues(next_scanline, image_height) == next_scanline < image_height

\* the byte values of the frames
SampleSeq == <<16, 128>> \o [k \in 1..(NSamples + 1) |-> (255 * (k - 1)) \div NSamples]

\* the frames: the first group of four bytes is any four samples, and every
\* further group is the one before it (shift = 0) or the one before it with
\* each byte moved to the next sample (shift = 1)
FrameOf(seed, shift, n) ==
  [i \in 0..(n - 1) |->
     SampleSeq[((seed[(i % 4) + 1] - 1 + shift * (i \div 4)) % Len(SampleSeq)) + 1]]

ConvWidths == {2 * k : k \in 1..MaxConvHalfWidth}
ConvHeights == 1..MaxConvHeight

\* YUYV2JPEG is entered with its row buffer allocated: the device is set up
\* for w x h, the buffer of the length the driver reported is mapped, and the
\* mapped page holds a frame
InitConv ==
  \E w \in ConvWidths, h \in ConvHeights :
    \E len \in DriverLengths(w, h), shift \in {0, 1},
       seed \in [1..4 -> 1..Len(SampleSeq)] :
      /\ pc = "convert"
      /\ VI = [width |-> w, height |-> h, fd |-> OpenedFd,
               caps |-> V4L2_CAP_VIDEO_CAPTURE + V4L2_CAP_STREAMING,
               fmt |-> [width |-> w, height |-> h],
               buffer |-> "MAPPED", buffer_len |-> len, verbose |-> FALSE]
      /\ mbuf = [index |-> BufIndex, length |-> len]
      /\ cycle = 2
      /\ retval = TRUE
      /\ dev = [open |-> TRUE, mapped |-> TRUE, maplen |-> len,
                queued |-> FALSE, streaming |-> FALSE]
      /\ log = << >>
      /\ errout = << >>
      /\ out = << >>
      /\ file = "truncated"
      /\ jpg = [image_width |-> 0, image_height |-> 0, scanlines |-> 0,
                row_pixels |-> 0, quality |-> 0]
      /\ exitStatus = -1
      /\ conv = [ConvIdle EXCEPT !.frame = FrameOf(seed, shift, 2 * w * h)]

\* yuyv = vi->buffer; the encoder's parameters; z = 0
YUYV2JPEG_begin ==
  /\ pc = "convert"
  /\ jpg' = [image_width |-> VI.width, image_height |-> VI.height, scanlines |-> 0,
             row_pixels |-> VI.width, quality |-> DEFAULT_JPEG_QUALITY]
  /\ conv' = [conv EXCEPT !.z = 0, !.yuyv = 0, !.next_scanline = 0, !.rows = << >>]
  /\ pc' = "scanline"
  /\ UNCHANGED <<VI, mbuf, cycle, retval, dev, log, errout, out, file, exitStatus>>

\* the highest offset the for loop read for the row
LastRead(row) == row[Len(row)].voff

\* one iteration of the while loop: a row is converted and written, unless a
\* read past buffer_len kills the process
YUYV2JPEG_scanline ==
  /\ pc = "scanline"
  /\ LoopContinues(conv.next_scanline, jpg.image_height)
  /\ LET res == ScanRow(conv.frame, VI.width, 0, conv.z, conv.yuyv, << >>)
     IN  \E o \in ReadOutcomes(LastRead(res.row))
                      \cup (IF conv.next_scanline \in ExitRows THEN WriteOutcomes ELSE {}) :
           CASE o \in {"read", "written"} ->
                  /\ conv' = [conv EXCEPT !.z = res.z, !.yuyv = res.yuyv,
                                          !.next_scanline = conv.next_scanline + 1,
                                          !.rows = Append(conv.rows, res.row)]
                  /\ jpg' = [jpg EXCEPT !.scanlines = jpg.scanlines + 1]
                  /\ UNCHANGED <<pc, VI, mbuf, cycle, retval, dev, log, errout, out, file,
                                 exitStatus>>
             [] o = "SIGSEGV" ->
                  /\ Killed
                  /\ UNCHANGED <<VI, mbuf, cycle, retval, jpg, conv>>
             [] o = "ENOSPC" ->
                  /\ EncoderExits
                  /\ UNCHANGED <<VI, mbuf, cycle, retval, jpg, conv>>

\* the loop is left: jpeg_finish_compress, return true
YUYV2JPEG_finish ==
  /\ pc = "scanline"
  /\ ~LoopContinues(conv.next_scanline, jpg.image_height)
  /\ \E o \in WriteOutcomes :
       IF o = "written"
         THEN /\ file' = "complete"
              /\ pc' = "converted"
              /\ UNCHANGED <<dev, log, errout, out, exitStatus>>
         ELSE EncoderExits
  /\ UNCHANGED <<VI, mbuf, cycle, retval, jpg, conv>>

NextConv ==
  \/ YUYV2JPEG_begin
  \/ YUYV2JPEG_scanline
  \/ YUYV2JPEG_finish

SpecConv == InitConv /\ [][NextConv]_vars

(* ---------------- reading the trace ---------------- *)

IoctlOps == {"VIDIOC_QUERYCAP", "VIDIOC_S_FMT", "VIDIOC_G_FMT", "VIDIOC_REQBUFS",
             "VIDIOC_QUERYBUF", "VIDIOC_QBUF", "VIDIOC_STREAMON", "VIDIOC_DQBUF",
             "VIDIOC_STREAMOFF"}
GenuineErrors == {"EINVAL", "EIO"}

\* positions of the trace where op was issued with result res
At(op, res) == {i \in 1..Len(log) : log[i].op = op /\ log[i].res = res}
\* positions where op was issued, whatever the result
Issued(op) == {i \in 1..Len(log) : log[i].op = op}

\* the k-th call of captureImage was made / has returned
Called(k) == \E i \in At("captureImage", "call") : log[i].arg = k
Returned(k, res) == \E i \in At("captureImage", res) : log[i].arg = k
HasReturned(k) == Returned(k, "true") \/ Returned(k, "false")

\* the positions of the trace that belong to the k-th capture cycle
CallPos(k) == CHOOSE i \in At("captureImage", "call") : log[i].arg = k
InCycle(k) ==
  IF Called(k)
    THEN {i \in 1..Len(log) : i > CallPos(k) /\ (Called(k + 1) => i < CallPos(k + 1))}
    ELSE {}

InSeq(x, sq) == \E i \in 1..Len(sq) : sq[i] = x

Idle == ~dev.queued /\ ~dev.streaming

(* ---------------- C1 ---------------- *)

\* C1: in every captureImage invocation in which VIDIOC_STREAMON succeeded,
\* VIDIOC_STREAMOFF is issued before captureImage returns, whatever the wait
\* and the dequeue did.
C1_StreamOffBeforeReturn ==
  \A k \in 1..2 :
    (HasReturned(k) /\ (At("VIDIOC_STREAMON", "OK") \cap InCycle(k)) # {})
      => (Issued("VIDIOC_STREAMOFF") \cap InCycle(k)) # {}

(* ---------------- C2 ---------------- *)

\* C2: when the process has ended, by a return of main, by the encoder's
\* exit(1) or by a signal, a device that was opened has been closed exactly
\* once and a buffer that was mapped has been unmapped exactly once (and
\* nothing that was not acquired has been released).
C2_ReleasedExactlyOnce ==
  pc \in {"done", "exit()", "killed"} =>
    /\ Cardinality(Issued("close")) = Cardinality(At("open", "OK"))
    /\ Cardinality(Issued("munmap")) = Cardinality(At("mmap", "OK"))
    /\ ~dev.open
    /\ ~dev.mapped

(* ---------------- C3 ---------------- *)

\* C3: main returns 0 only when every step succeeded, the live cycle and the
\* encoding and writing of the output file included.
C3_ExitZeroOnlyOnSuccess ==
  (pc = "done" /\ exitStatus = 0) =>
    /\ Returned(1, "true")
    /\ Returned(2, "true")
    /\ At("fopen", "OK") # {}
    /\ At("YUYV2JPEG", "true") # {}
    /\ file = "complete"

(* ---------------- C4 ---------------- *)

\* C4: there is no partial output: the output path is complete or was never
\* created or truncated, and it is reported as saved only when complete.
C4_NoPartialOutput ==
  /\ pc = "done" => file \in {"untouched", "complete"}
  /\ InSeq("Saved image to", out) => file = "complete"

(* ---------------- C5 ---------------- *)

PerrorLines == {"ioctl(VIDIOC_QUERYCAP)", "ioctl(VIDIOC_S_FMT)", "ioctl(VIDIOC_C_FMT)",
                "ioctl(VIDIOC_REQBUFS)", "ioctl(VIDIOC_QUERYBUF)", "mmap()",
                "ioctl(VIDIOC_QBUF)", "ioctl(VIDIOC_STREAMON)", "select",
                "ioctl(VIDIOC_DQBUF)", "ioctl(VIDIOC_STREAMOFF)", "fopen()", "open()"}

\* C5: once select has expired in either cycle, stderr carries the timeout
\* line and no line of a wait error or of a failed system call, and the output
\* file is never opened.
C5_TimeoutDistinctNoFile ==
  At("select", "TIMEOUT") # {} =>
    /\ InSeq("Timed out waiting for frame", errout)
    /\ \A m \in PerrorLines : ~InSeq(m, errout)
    /\ Issued("fopen") = {}
    /\ file = "untouched"
    /\ pc \in {"captured", "done"}

\* the live cycle timed out after a good discard cycle, and main has returned
C5_Witness ==
  /\ pc = "done"
  /\ Returned(1, "true")
  /\ (At("select", "TIMEOUT") \cap InCycle(2)) # {}

(* ---------------- C6 ---------------- *)

\* the capability query failed, or answered without one of the two flags
CapsRejected ==
  \E i \in Issued("VIDIOC_QUERYCAP") :
    \/ log[i].res \in GenuineErrors
    \/ /\ log[i].res = "OK"
       /\ ~(HasCap(log[i].arg, V4L2_CAP_VIDEO_CAPTURE) /\ HasCap(log[i].arg, V4L2_CAP_STREAMING))

\* C6: if the capability query fails or lacks VIDEO_CAPTURE or STREAMING, no
\* S_FMT, REQBUFS, QUERYBUF, mmap, QBUF or STREAMON is ever issued; the handle
\* is closed and main returns 1.
C6_NoSetupWithoutCaps ==
  CapsRejected =>
    /\ \A op \in {"VIDIOC_S_FMT", "VIDIOC_G_FMT", "VIDIOC_REQBUFS", "VIDIOC_QUERYBUF",
                  "mmap", "VIDIOC_QBUF", "VIDIOC_STREAMON"} : Issued(op) = {}
    /\ pc = "done"
    /\ exitStatus = 1
    /\ Cardinality(Issued("close")) = 1
    /\ ~dev.open

\* the device can capture but cannot stream
C6_Witness ==
  /\ pc = "done"
  /\ \E i \in At("VIDIOC_QUERYCAP", "OK") :
       HasCap(log[i].arg, V4L2_CAP_VIDEO_CAPTURE) /\ ~HasCap(log[i].arg, V4L2_CAP_STREAMING)

(* ---------------- C7 ---------------- *)

\* C7: in a run that invokes the cycle twice, the device is Idle after each
\* cycle returns, and the second cycle starts with QBUF of buffer 0 with no
\* format or buffer setup between the two cycles.
C7_DoubleCaptureIdle ==
  /\ (pc = "captured" /\ (cycle = 2 \/ retval)) => Idle
  /\ Called(2) =>
       /\ log[CallPos(2) - 1] = E("captureImage", "true", 1)
       /\ CallPos(2) < Len(log) =>
            log[CallPos(2) + 1].op = "VIDIOC_QBUF" /\ log[CallPos(2) + 1].arg = BufIndex
       /\ \A op \in {"VIDIOC_S_FMT", "VIDIOC_G_FMT", "VIDIOC_REQBUFS", "VIDIOC_QUERYBUF", "mmap"} :
            \A i \in Issued(op) : i < CallPos(1)

(* ---------------- C8 ---------------- *)

\* C8: after a failed discard cycle no live cycle is started; after a failed
\* live cycle saveImage and YUYV2JPEG are never invoked; encoding happens
\* only after two successful cycles.
C8_FailedCycleStopsPipeline ==
  /\ Returned(1, "false") => (~Called(2) /\ Cardinality(At("VIDIOC_QBUF", "OK")) <= 1)
  /\ Returned(2, "false") =>
       (Issued("saveImage") = {} /\ Issued("fopen") = {} /\ Issued("YUYV2JPEG") = {})
  /\ (Issued("saveImage") # {} \/ pc \in {"fopen", "YUYV2JPEG"} \/ file # "untouched")
       => (Returned(1, "true") /\ Returned(2, "true"))

\* the live cycle failed and main has returned
C8_Witness ==
  /\ pc = "done"
  /\ Returned(1, "true")
  /\ Returned(2, "false")

(* ---------------- C9 ---------------- *)

\* setFormat has returned true
FormatSet == At("VIDIOC_G_FMT", "OK") # {}

\* C9: after setFormat returned true, VI.width and VI.height are the values
\* the driver returned from VIDIOC_G_FMT, and the image dimensions and the row
\* length of the conversion are those values.
C9_DriverDimensions ==
  FormatSet =>
    /\ VI.width = VI.fmt.width
    /\ VI.height = VI.fmt.height
    /\ \A i \in At("VIDIOC_G_FMT", "OK") : log[i].arg = VI.width
    /\ At("YUYV2JPEG", "true") # {} =>
         /\ jpg.image_width = VI.fmt.width
         /\ jpg.image_height = VI.fmt.height
         /\ jpg.row_pixels = VI.fmt.width
         /\ jpg.scanlines = VI.fmt.height

\* an image was encoded after the driver changed both requested dimensions
C9_Witness ==
  /\ At("YUYV2JPEG", "true") # {}
  /\ InSeq("Warning: Selected width adjusted by driver", errout)
  /\ InSeq("Warning: Selected height adjusted by driver", errout)
  /\ \E i \in At("VIDIOC_S_FMT", "OK") : log[i].arg # VI.width

(* ---------------- C10 ---------------- *)

\* the line perror writes when the ioctl op fails
PerrorOf(op) == IF op = "VIDIOC_G_FMT" THEN "ioctl(VIDIOC_C_FMT)" ELSE "ioctl(" \o op \o ")"

\* C10: an ioctl that fails with EINTR is issued again, the same request and
\* nothing else; no request is repeated for another reason within setup or
\* within one cycle; and a step is reported as failed (a perror line, a false
\* return of captureImage, exit status 1) only after a result that is an error
\* other than EINTR.
C10_EintrRetried ==
  /\ \A i \in 1..Len(log) :
       (log[i].op \in IoctlOps /\ log[i].res = "EINTR") =>
         IF i = Len(log) THEN pc = log[i].op /\ exitStatus = -1
         ELSE log[i + 1].op = log[i].op
  /\ \A j \in 1..Len(log) :
       log[j].op \in IoctlOps =>
         \A i \in 1..(j - 1) :
           log[i].op = log[j].op =>
             \/ log[i].res = "EINTR"
             \/ \E n \in (i + 1)..(j - 1) : log[n].op = "captureImage" /\ log[n].res = "call"
  /\ \A op \in IoctlOps :
       InSeq(PerrorOf(op), errout) => \E i \in Issued(op) : log[i].res \in GenuineErrors
  /\ \A r \in 1..Len(log) :
       (log[r].op = "captureImage" /\ log[r].res = "false") =>
         (r > 1 /\ log[r - 1].res \in GenuineErrors \cup {"TIMEOUT", "ERROR"})
  /\ (pc = "done" /\ exitStatus = 1 /\ Issued("VIDIOC_QUERYCAP") # {}) =>
       \E i \in 1..Len(log) :
         log[i].res \in GenuineErrors \cup {"TIMEOUT", "ERROR", "ENOMEM"} \/ CapsRejected

\* the live cycle's QBUF was interrupted, issued again, and the run went on
\* to write the image
C10_Witness ==
  /\ pc = "done"
  /\ file = "complete"
  /\ \E i \in At("VIDIOC_QBUF", "EINTR") : i \in InCycle(2) /\ log[i + 1] = E("VIDIOC_QBUF", "OK", BufIndex)

(* ---------------- reading the converted rows ---------------- *)

\* the pixels written so far, in the order they were written
RECURSIVE Flatten(_)
Flatten(rows) == IF rows = << >> THEN << >> ELSE Head(rows) \o Flatten(Tail(rows))

\* the offsets of the mapped page the loop has read so far
ReadOffsets ==
  UNION {{conv.rows[r][x].yoff, conv.rows[r][x].uoff, conv.rows[r][x].voff} :
           r \in 1..Len(conv.rows), x \in 1..VI.width}

RGB(px) == <<px.r, px.g, px.b>>

\* the input is a whole packed-422 frame of even width
WholeFrame == VI.buffer_len >= 2 * VI.width * VI.height /\ VI.width % 2 = 0

(* ---------------- C11 ---------------- *)

\* the reference conversion of one luma byte with the chroma bytes of its group
RefClamp(n) == IF n < 0 THEN 0 ELSE IF n > 255 THEN 255 ELSE n
RefShift(n) == (n - (n % 256)) \div 256
RefRGB(Y, U, V) ==
  LET y == Y * 256
      u == U - 128
      v == V - 128
  IN  <<RefClamp(RefShift(y + 359 * v)),
        RefClamp(RefShift(y - 88 * u - 183 * v)),
        RefClamp(RefShift(y + 454 * u))>>

\* C11: for every group (Y0, U, Y1, V) of the frame, the two pixels written for
\* it are the reference conversion of (Y0, U, V) and of (Y1, U, V).
C11_PixelsMatchReference ==
  LET px == Flatten(conv.rows)
  IN  \A k \in 0..((Len(px) \div 2) - 1) :
        /\ RGB(px[2 * k + 1]) = RefRGB(conv.frame[4 * k], conv.frame[4 * k + 1], conv.frame[4 * k + 3])
        /\ RGB(px[2 * k + 2]) = RefRGB(conv.frame[4 * k + 2], conv.frame[4 * k + 1], conv.frame[4 * k + 3])

\* a converted frame in which one channel was clamped at 0, one at 255, one
\* not at all, and the two pixels of a group differ
C11_Witness ==
  /\ pc = "converted"
  /\ \E r \in 1..Len(conv.rows) :
       /\ conv.rows[r][1].r = 0
       /\ conv.rows[r][1].b = 255
       /\ conv.rows[r][1].g \in 1..254
       /\ RGB(conv.rows[r][2]) # RGB(conv.rows[r][1])

(* ---------------- C12 ---------------- *)

\* C12: for a whole packed-422 frame of even width, the loop writes a row of
\* exactly width pixels per scanline, height rows when it is left, and every
\* R, G and B value is in 0 .. 255.
C12_RowsAndRange ==
  WholeFrame =>
    /\ Len(conv.rows) = conv.next_scanline
    /\ Len(conv.rows) = jpg.scanlines
    /\ Len(conv.rows) <= VI.height
    /\ pc = "converted" => Len(conv.rows) = VI.height /\ Len(Flatten(conv.rows)) = VI.width * VI.height
    /\ \A r \in 1..Len(conv.rows) :
         /\ Len(conv.rows[r]) = VI.width
         /\ \A x \in 1..VI.width :
              /\ conv.rows[r][x].r \in 0..255
              /\ conv.rows[r][x].g \in 0..255
              /\ conv.rows[r][x].b \in 0..255

\* a whole frame of the largest size was converted
C12_Witness ==
  /\ pc = "converted"
  /\ WholeFrame
  /\ VI.width = 2 * MaxConvHalfWidth
  /\ VI.height = MaxConvHeight
  /\ Len(conv.rows) = MaxConvHeight

(* ---------------- C13 ---------------- *)

\* the 2x2 frame [16,128,16,128, 16,128,16,128]
Fixture ==
  /\ VI.width = 2
  /\ VI.height = 2
  /\ VI.buffer_len = 8
  /\ conv.frame = [i \in 0..7 |-> IF i % 2 = 0 THEN 16 ELSE 128]

\* C13 as stated: the fixture converts to 4 pixels equal to (0,0,0), each
\* channel within the 1 that the 8-bit shift can drop.
C13_FixtureBlack ==
  (Fixture /\ pc = "converted") =>
    /\ Len(Flatten(conv.rows)) = 4
    /\ \A i \in 1..4 : \A c \in 1..3 : RGB(Flatten(conv.rows)[i])[c] \in 0..1

\* C13 as amended: the fixture converts to 4 pixels all equal to (16,16,16):
\* the luma 16 is not offset, and the chroma 128 adds nothing.
C13_FixtureGray16 ==
  (Fixture /\ pc = "converted") =>
    /\ Len(Flatten(conv.rows)) = 4
    /\ \A i \in 1..4 : RGB(Flatten(conv.rows)[i]) = <<16, 16, 16>>

\* the fixture was converted
C13_Witness ==
  /\ Fixture
  /\ pc = "converted"
  /\ Len(conv.rows) = 2

(* ---------------- C14 ---------------- *)

\* the operations on the device, its descriptor and its mapping
DeviceOps == IoctlOps \cup {"select", "mmap", "munmap"}

\* C14: on every teardown path where both happen the buffer is unmapped
\* before the device is closed, and no ioctl, select, mmap or munmap is issued
\* once the descriptor has been closed.
C14_ReleaseBeforeClose ==
  \A j \in Issued("close") :
    /\ \A i \in Issued("munmap") : i < j
    /\ \A i \in 1..Len(log) : log[i].op \in DeviceOps => i < j
    /\ pc = "done"
    /\ ~dev.open

\* a teardown after a complete run: munmap, then close, and nothing after it
C14_Witness ==
  /\ pc = "done"
  /\ file = "complete"
  /\ Len(log) >= 2
  /\ log[Len(log)] = CloseEv
  /\ log[Len(log) - 1].op = "munmap"

(* ---------------- C15 ---------------- *)

CycleOrder == <<"VIDIOC_QBUF", "VIDIOC_STREAMON", "select", "VIDIOC_DQBUF", "VIDIOC_STREAMOFF">>
IsCycleStep(e) == InSeq(e.op, CycleOrder) /\ e.res # "EINTR"
Succeeded(e) == e.res \in {"OK", "READY"}

\* the device operations of the k-th cycle in the order they were issued, the
\* interrupted issues of an ioctl left out
CycleSteps(k) ==
  IF Called(k)
    THEN SelectSeq(SubSeq(log, CallPos(k) + 1, Len(log)), IsCycleStep)
    ELSE << >>
CycleStepsOf(k) ==
  IF k = 1 /\ Called(2)
    THEN SelectSeq(SubSeq(log, CallPos(1) + 1, CallPos(2) - 1), IsCycleStep)
    ELSE CycleSteps(k)

\* C15: the device operations of one capture cycle are a prefix of QBUF,
\* STREAMON, select, DQBUF, STREAMOFF, each issued once and only after all
\* before it succeeded; a failure is the last operation of its cycle, and after
\* a failed QBUF streaming was never enabled and the device is Idle.
C15_CycleOrder ==
  \A k \in 1..2 :
    LET ops == CycleStepsOf(k)
    IN  /\ Len(ops) <= Len(CycleOrder)
        /\ \A i \in 1..Len(ops) :
             /\ ops[i].op = CycleOrder[i]
             /\ i < Len(ops) => Succeeded(ops[i])
        /\ Returned(k, "true") => (Len(ops) = Len(CycleOrder) /\ Succeeded(ops[Len(ops)]))
        /\ Returned(k, "false") => (Len(ops) >= 1 /\ ~Succeeded(ops[Len(ops)]))
        /\ (Len(ops) >= 1 /\ ~Succeeded(ops[1])) =>
             /\ Len(ops) = 1
             /\ Issued("VIDIOC_STREAMON") \cap InCycle(k) = {}
             /\ Idle

\* the live cycle's QBUF failed after a complete discard cycle
C15_Witness ==
  /\ Returned(1, "true")
  /\ Len(CycleStepsOf(1)) = Len(CycleOrder)
  /\ Returned(2, "false")
  /\ \E i \in InCycle(2) : log[i].op = "VIDIOC_QBUF" /\ log[i].res \in GenuineErrors
  /\ Len(CycleStepsOf(2)) = 1

\* the wait of the discard cycle expired, and the cycle ended there
C15_WitnessTimeout ==
  /\ Returned(1, "false")
  /\ At("select", "TIMEOUT") # {}
  /\ Len(CycleStepsOf(1)) = 3

(* ---------------- C16 ---------------- *)

SetupOps == {"VIDIOC_S_FMT", "VIDIOC_G_FMT", "VIDIOC_REQBUFS", "VIDIOC_QUERYBUF", "mmap"}
SetupFailed == \E i \in 1..Len(log) : log[i].op \in SetupOps /\ log[i].res \in GenuineErrors \cup {"ENOMEM"}

\* C16: munmap is called only on a mapping mmap returned, with the length
\* VIDIOC_QUERYBUF reported; when a setup step fails there is no munmap and no
\* capture cycle, the device is closed and main returns 1; and the conversion
\* reads the buffer only between the successful mmap and the munmap.
C16_UnmapOnlyMapped ==
  /\ \A j \in Issued("munmap") :
       /\ At("VIDIOC_QUERYBUF", "OK") # {}
       /\ log[j].arg = mbuf.length
       /\ \E i \in At("mmap", "OK") : i < j /\ log[i].arg = log[j].arg
  /\ SetupFailed =>
       /\ Issued("munmap") = {}
       /\ Issued("captureImage") = {}
       /\ Issued("YUYV2JPEG") = {}
       /\ log[Len(log)] = CloseEv
       /\ pc = "done"
       /\ exitStatus = 1
  /\ \A c \in Issued("YUYV2JPEG") :
       /\ \E i \in At("mmap", "OK") : i < c
       /\ \A j \in Issued("munmap") : c < j
  /\ pc \in {"YUYV2JPEG", "fopen"} => (dev.mapped /\ dev.open /\ VI.buffer = "MAPPED")

\* a buffer whose length is not the size of the format was mapped, read by
\* the conversion and unmapped
C16_Witness ==
  /\ pc = "done"
  /\ At("YUYV2JPEG", "true") # {}
  /\ mbuf.length # 2 * VI.width * VI.height
  /\ \E j \in Issued("munmap") : log[j].arg = mbuf.length

\* mmap failed after VIDIOC_QUERYBUF succeeded
C16_WitnessSetupFailed ==
  /\ pc = "done"
  /\ At("VIDIOC_QUERYBUF", "OK") # {}
  /\ At("mmap", "ENOMEM") # {}

(* ---------------- C17 ---------------- *)

\* C17: for even width the pixel of row r, column x is computed from the luma
\* byte at offset 2*(r*width + x) and the U and V bytes at offsets
\* 4*floor((r*width + x)/2) + 1 and + 3; z is 0 at the start of every scanline,
\* yuyv advances 2*width bytes per scanline, and the offsets read over the
\* whole conversion are exactly 0 .. 2*width*height - 1.
C17_Offsets ==
  (VI.width % 2 = 0 /\ pc \in {"scanline", "converted"}) =>
    /\ conv.z = 0
    /\ conv.yuyv = 2 * VI.width * conv.next_scanline
    /\ \A r \in 1..Len(conv.rows) : \A x \in 1..VI.width :
         LET p == (r - 1) * VI.width + (x - 1)
         IN  /\ conv.rows[r][x].yoff = 2 * p
             /\ conv.rows[r][x].uoff = 4 * (p \div 2) + 1
             /\ conv.rows[r][x].voff = 4 * (p \div 2) + 3
    /\ ReadOffsets = 0..(2 * VI.width * Len(conv.rows) - 1)
    /\ pc = "converted" => ReadOffsets = 0..(2 * VI.width * VI.height - 1)

\* a frame of several rows and several groups per row was converted, and the
\* second pixel of a group took its luma from the third byte
C17_Witness ==
  /\ pc = "converted"
  /\ VI.width >= 4
  /\ VI.height >= 2
  /\ conv.rows[2][4].yoff = 2 * (VI.width + 3)
  /\ conv.rows[2][4].yoff = conv.rows[2][4].uoff + 1

(* ---------------- C18 ---------------- *)

\* C18: every byte offset YUYV2JPEG reads from the mapped buffer is less than
\* buffer_len, whatever width, height and buffer length the driver reported.
C18_NoReadPastBuffer ==
  \A off \in ReadOffsets : off < VI.buffer_len

(* ---------------- C19 ---------------- *)

\* a run of main, or a run of the conversion, that is not stopped while it has
\* a next step: every ioctl is interrupted at most MaxEintr times and select
\* returns one of its three results
\* (the loop's tests read no byte of the frame: its runs here are those over
\* the frames that repeat one group of the bytes 16 and 128)
InitLoop == InitConv /\ \A i \in DOMAIN conv.frame : conv.frame[i] = SampleSeq[(i % 2) + 1]
LiveSpec == (Init \/ InitLoop) /\ [][Next \/ NextConv]_vars /\ WF_vars(Next \/ NextConv)

\* C19: every run of main reaches a return and every run of the conversion
\* leaves its loop; no capture cycle waits more than once; and the loop is
\* left after exactly image_height iterations.
C19_Terminates ==
  /\ <>(pc \in {"done", "converted"})
  /\ [](\A k \in 1..2 : Cardinality(Issued("select") \cap InCycle(k)) <= 1)
  /\ [](pc = "converted" =>
          /\ conv.next_scanline = VI.height
          /\ Len(conv.rows) = VI.height
          /\ jpg.scanlines = jpg.image_height)

\* the runs end, by a return, by the kill or by the encoder's exit: nothing
\* else keeps a run from its return
EndsSomehow == <>(pc \in {"done", "converted", "killed", "exit()"})

====
